---------------------------- MODULE Spec2Model ----------------------------
(***************************************************************************)
(* A model of the coco-shop storefront (src/app.py): the session-scoped    *)
(* shopping cart, the checkout flow, the admin gate and the product table. *)
(*                                                                         *)
(* One browser session talks to the application, one request at a time.    *)
(* Text submitted by the client is a sequence of one-character strings, so *)
(* that Python's int() and str() are modelled by what they do to the       *)
(* characters.  Prices are kept in integer cents (the Float column of the  *)
(* source is not representable here); every other value keeps its Python   *)
(* meaning.                                                                *)
(***************************************************************************)
EXTENDS Integers, Sequences, FiniteSets, TLC

VARIABLES
    session,    \* the Flask session: a dict from the keys present to their values
    products,   \* the products table: id -> row
    resp,       \* the response to the last request
    assigned,   \* history: every id the products table has given a row
    inflight    \* the requests being served concurrently, with what each has read

vars == <<session, products, resp, assigned, inflight>>

---------------------------------------------------------------------------
(* Bounds of the model.                                                    *)

\* add_to_cart is explored while the sum of |quantity| over the cart stays within this
MaxQty == 5
\* add_product is explored while the table's largest id stays within this
MaxProductId == 5

---------------------------------------------------------------------------
(* Python values that a request can carry.                                 *)

NoneVal == [t |-> "none"]
StrVal(s) == [t |-> "str", v |-> s]
IntVal(n) == [t |-> "int", v |-> n]

\* data.get(key): the value submitted, None when the key is missing
Get(data, key) == IF key \in DOMAIN data THEN data[key] ELSE NoneVal
\* data.get(key, default)
GetDefault(data, key, default) == IF key \in DOMAIN data THEN data[key] ELSE default

\* Python truthiness of a submitted value: None, "" and 0 are falsy
Truthy(x) ==
    CASE x.t = "none" -> FALSE
      [] x.t = "str" -> Len(x.v) > 0
      [] x.t = "int" -> x.v # 0

---------------------------------------------------------------------------
(* int() and str().                                                        *)

DigitChars == <<"0", "1", "2", "3", "4", "5", "6", "7", "8", "9">>
Digits == {DigitChars[i] : i \in 1..Len(DigitChars)}
IsDigit(c) == c \in Digits
DigitValues == [c \in Digits |-> (CHOOSE i \in 1..Len(DigitChars) : DigitChars[i] = c) - 1]
DigitVal(c) == DigitValues[c]

RECURSIVE LStrip(_)
LStrip(s) == IF Len(s) > 0 /\ Head(s) = " " THEN LStrip(Tail(s)) ELSE s
RECURSIVE RStrip(_)
RStrip(s) ==
    IF Len(s) > 0 /\ s[Len(s)] = " " THEN RStrip(SubSeq(s, 1, Len(s) - 1)) ELSE s
Strip(s) == RStrip(LStrip(s))

IsDigits(s) == Len(s) > 0 /\ \A i \in 1..Len(s) : IsDigit(s[i])
RECURSIVE DigitsVal(_)
DigitsVal(s) ==
    IF Len(s) = 0 THEN 0
    ELSE DigitsVal(SubSeq(s, 1, Len(s) - 1)) * 10 + DigitVal(s[Len(s)])

Raised == [ok |-> FALSE, n |-> 0]
Returned(n) == [ok |-> TRUE, n |-> n]

\* int(s) for a str: surrounding whitespace is stripped, one optional sign,
\* then decimal digits; anything else raises ValueError
ParseInt(s) ==
    LET b == Strip(s)
        signed == Len(b) > 0 /\ b[1] \in {"+", "-"}
        d == IF signed THEN Tail(b) ELSE b
    IN  IF ~IsDigits(d) THEN Raised
        ELSE IF signed /\ b[1] = "-" THEN Returned(0 - DigitsVal(d))
        ELSE Returned(DigitsVal(d))

\* int(x): identity on an int, the parse on a str, TypeError on None
int(x) ==
    CASE x.t = "int" -> Returned(x.v)
      [] x.t = "str" -> ParseInt(x.v)
      [] x.t = "none" -> Raised

RECURSIVE NatStr(_)
NatStr(n) ==
    IF n < 10 THEN <<DigitChars[n + 1]>>
    ELSE NatStr(n \div 10) \o <<DigitChars[(n % 10) + 1]>>
\* str(n) for an int
str(n) == IF n < 0 THEN <<"-">> \o NatStr(0 - n) ELSE NatStr(n)

---------------------------------------------------------------------------
(* dicts.                                                                  *)

EmptyDict == [k \in {} |-> 0]
DictGet(d, k, default) == IF k \in DOMAIN d THEN d[k] ELSE default
DictSet(d, k, v) == [x \in DOMAIN d \cup {k} |-> IF x = k THEN v ELSE d[x]]
DictPop(d, k) == [x \in DOMAIN d \ {k} |-> d[x]]

\* sum(d.values())
RECURSIVE SumValues(_)
SumValues(d) ==
    IF DOMAIN d = {} THEN 0
    ELSE LET k == CHOOSE x \in DOMAIN d : TRUE
         IN  d[k] + SumValues(DictPop(d, k))

\* session.get('cart', {}) -- the stored cart is only ever a dict, so the
\* isinstance(cart, dict) tests and the "or {}" of the source change nothing
SessionCart(s) == DictGet(s, "cart", EmptyDict)

---------------------------------------------------------------------------
(* The products table.                                                     *)

\* SAMPLE_PRODUCTS, inserted by seed_db into the empty table: ids 1..4,
\* prices 19.99, 49.99, 89.99 and 59.99 in cents
SAMPLE_PRODUCTS == <<[price |-> 1999], [price |-> 4999], [price |-> 8999], [price |-> 5999]>>

\* Product.query.get(id) finds a row
Exists(id) == id \in DOMAIN products

\* the id the table gives an inserted row: an INTEGER PRIMARY KEY column
\* takes one more than the largest id in the table
NextId == IF DOMAIN products = {} THEN 1
          ELSE (CHOOSE m \in DOMAIN products : \A i \in DOMAIN products : i <= m) + 1

\* float(x) of a submitted price, in cents: digits with an optional
\* fraction of one or two digits; anything else, and None, raises
ParseCents(s) ==
    LET b == Strip(s)
        dots == {i \in 1..Len(b) : b[i] = "."}
    IN  IF dots = {} THEN
            IF IsDigits(b) THEN Returned(DigitsVal(b) * 100) ELSE Raised
        ELSE LET i == CHOOSE j \in dots : TRUE
                 whole == SubSeq(b, 1, i - 1)
                 frac == SubSeq(b, i + 1, Len(b))
             IN  IF Cardinality(dots) = 1 /\ IsDigits(whole) /\ IsDigits(frac) /\ Len(frac) <= 2
                 THEN Returned(DigitsVal(whole) * 100
                               + (IF Len(frac) = 1 THEN 10 ELSE 1) * DigitsVal(frac))
                 ELSE Raised
float(x) == IF x.t = "str" THEN ParseCents(x.v) ELSE Raised

---------------------------------------------------------------------------
(* Responses.                                                              *)

Json(op, status, body) == [op |-> op, kind |-> "json", status |-> status, body |-> body]
Render(op, template, ctx) ==
    [op |-> op, kind |-> "render", status |-> 200, template |-> template, ctx |-> ctx]
Redirect(op, to) == [op |-> op, kind |-> "redirect", status |-> 302, to |-> to]
\* an exception that leaves the handler: the 500 response
InternalError(op) == Json(op, 500, [error |-> "Internal server error"])

\* a badge that counts the line items instead of summing their quantities
CartCountLines(cart) == Cardinality(DOMAIN cart)

\* the cart badge: sum(cart.values())
CartCount(cart) == SumValues(cart)

---------------------------------------------------------------------------
(* The requests the model submits.                                         *)

Absent == [t |-> "absent"]
\* a request body: the keys that were submitted, with their values
Body(fields) == [k \in {x \in DOMAIN fields : fields[x].t # "absent"} |-> fields[k]]

\* product_id values that int() accepts: a form field or a JSON number,
\* with surrounding blanks, zero
ProductIdInputs == {StrVal(<<"1">>), IntVal(2), StrVal(<<" ", "1">>), StrVal(<<"0">>)}
QuantityInputs == {Absent, IntVal(2), StrVal(<<"3">>), StrVal(<<"-", "1">>)}
AddRequests ==
    {Body([product_id |-> p, quantity |-> q]) : p \in ProductIdInputs, q \in QuantityInputs}
    \cup {Body([product_id |-> StrVal(<<"1">>), quantity |-> StrVal(<<"0">>)]),
          \* a quantity that int() refuses
          Body([product_id |-> StrVal(<<"1">>), quantity |-> StrVal(<<"x">>)]),
          Body([product_id |-> IntVal(2), quantity |-> NoneVal]),
          \* a product_id that is missing, empty, 0 or not a number
          Body([product_id |-> Absent, quantity |-> Absent]),
          Body([product_id |-> StrVal(<<>>), quantity |-> Absent]),
          Body([product_id |-> IntVal(0), quantity |-> Absent]),
          Body([product_id |-> StrVal(<<"a">>), quantity |-> IntVal(2)])}

UpdateIdInputs == {Absent, StrVal(<<"1">>), StrVal(<<"2">>), StrVal(<<" ", "1">>)}
UpdateQuantityInputs == {Absent, StrVal(<<"3">>), StrVal(<<"-", "1">>)}
UpdateRequests ==
    {Body([product_id |-> p, quantity |-> q]) : p \in UpdateIdInputs, q \in UpdateQuantityInputs}
    \cup {Body([product_id |-> StrVal(<<"1">>), quantity |-> StrVal(<<"0">>)]),
          Body([product_id |-> StrVal(<<"0">>), quantity |-> StrVal(<<"3">>)]),
          Body([product_id |-> StrVal(<<"1">>), quantity |-> StrVal(<<"x">>)])}

\* buyer fields: all submitted, none submitted, an empty email, no address
ProcessRequests ==
    {Body([name |-> StrVal(<<"a">>), email |-> StrVal(<<"a">>), address |-> StrVal(<<"a">>)]),
     Body([name |-> Absent, email |-> Absent, address |-> Absent]),
     Body([name |-> StrVal(<<"a">>), email |-> StrVal(<<>>), address |-> Absent])}

\* the exploration bound on the cart
Abs(n) == IF n < 0 THEN 0 - n ELSE n
SumAbs(cart) == SumValues([k \in DOMAIN cart |-> Abs(cart[k])])
WithinBound(cart) == SumAbs(cart) <= MaxQty

---------------------------------------------------------------------------
(* The state after init_db on a fresh database, before any request.        *)

Init ==
    /\ session = EmptyDict
    /\ products = [i \in 1..Len(SAMPLE_PRODUCTS) |-> SAMPLE_PRODUCTS[i]]
    /\ resp = [op |-> "none"]
    /\ assigned = 1..Len(SAMPLE_PRODUCTS)
    /\ inflight = EmptyDict

\* a request served alone, from start to end: the history records the ids
\* of the rows it inserted
Alone ==
    /\ assigned' = assigned \cup DOMAIN products'
    /\ UNCHANGED inflight

---------------------------------------------------------------------------
(* Shopping cart routes.                                                   *)

\* GET /
index ==
    /\ resp' = Render("index", "index.html",
                      [products |-> DOMAIN products, cart_count |-> CartCount(SessionCart(session))])
    /\ UNCHANGED <<session, products>>

\* an add that overwrites the stored quantity instead of incrementing it
AddedCartOverwrites(cart, pid, qty) == DictSet(cart, pid, qty)

\* an add that creates the entry before it reads the quantity, so that a
\* quantity int() refuses leaves the entry behind
add_to_cartStoresFirst(data) ==
    LET product_id == Get(data, "product_id")
        parsed == int(product_id)
        pid == str(parsed.n)
        qty == int(GetDefault(data, "quantity", IntVal(1)))
        opened == DictSet(SessionCart(session), pid, DictGet(SessionCart(session), pid, 0))
        cart == DictSet(opened, pid, opened[pid] + qty.n)
    IN  IF ~Truthy(product_id) THEN
            /\ resp' = Json("add_to_cart", 400, [error |-> "product_id required"])
            /\ UNCHANGED <<session, products>>
        ELSE IF ~parsed.ok THEN
            /\ resp' = Json("add_to_cart", 400, [error |-> "invalid product_id"])
            /\ UNCHANGED <<session, products>>
        ELSE IF ~qty.ok THEN
            /\ session' = DictSet(session, "cart", opened)
            /\ resp' = InternalError("add_to_cart")
            /\ UNCHANGED products
        ELSE
            /\ session' = DictSet(session, "cart", cart)
            /\ resp' = Json("add_to_cart", 200, [cart_count |-> CartCount(cart)])
            /\ UNCHANGED products
            /\ SumValues([k \in DOMAIN cart |-> IF cart[k] < 0 THEN 0 - cart[k] ELSE cart[k]])
                   <= MaxQty

\* the cart add_to_cart stores for the parsed id and quantity
AddedCart(cart, pid, qty) == DictSet(cart, pid, DictGet(cart, pid, 0) + qty)

\* POST /add-to-cart; data is the JSON body or, without one, the form
add_to_cart(data) ==
    LET product_id == Get(data, "product_id")
        parsed == int(product_id)
        pid == str(parsed.n)
        qty == int(GetDefault(data, "quantity", IntVal(1)))
        cart == AddedCart(SessionCart(session), pid, qty.n)
    IN  IF ~Truthy(product_id) THEN
            /\ resp' = Json("add_to_cart", 400, [error |-> "product_id required"])
            /\ UNCHANGED <<session, products>>
        ELSE IF ~parsed.ok THEN
            /\ resp' = Json("add_to_cart", 400, [error |-> "invalid product_id"])
            /\ UNCHANGED <<session, products>>
        ELSE IF ~qty.ok THEN
            /\ resp' = InternalError("add_to_cart")
            /\ UNCHANGED <<session, products>>
        ELSE
            /\ session' = DictSet(session, "cart", cart)
            /\ resp' = Json("add_to_cart", 200, [cart_count |-> CartCount(cart)])
            /\ UNCHANGED products
            /\ WithinBound(cart)

\* a loop that forgets to multiply the price by the quantity
RECURSIVE SnapshotUnitTotals(_, _)
SnapshotUnitTotals(cart, acc) ==
    IF DOMAIN cart = {} THEN acc
    ELSE LET pid == CHOOSE k \in DOMAIN cart : TRUE
             qty == cart[pid]
             id == int(StrVal(pid)).n
             rest == DictPop(cart, pid)
         IN  IF Exists(id) THEN
                 LET item_total == products[id].price
                 IN  SnapshotUnitTotals(rest,
                         [items |-> acc.items \cup
                              {[product |-> id, quantity |-> qty, item_total |-> item_total]},
                          total |-> acc.total + item_total])
             ELSE SnapshotUnitTotals(rest, acc)

\* the loop of the cart and checkout views over cart.items(): the line
\* items of the entries whose product exists, and their total
RECURSIVE Snapshot(_, _)
Snapshot(cart, acc) ==
    IF DOMAIN cart = {} THEN acc
    ELSE LET pid == CHOOSE k \in DOMAIN cart : TRUE
             qty == cart[pid]
             id == int(StrVal(pid)).n
             rest == DictPop(cart, pid)
         IN  IF Exists(id) THEN
                 LET item_total == products[id].price * qty
                 IN  Snapshot(rest,
                              [items |-> acc.items \cup
                                   {[product |-> id, quantity |-> qty, item_total |-> item_total]},
                               total |-> acc.total + item_total])
             ELSE Snapshot(rest, acc)
NoItems == [items |-> {}, total |-> 0]

\* a cart view that purges the entries whose product is gone
cartPurgesStale ==
    LET c == SessionCart(session)
        snap == Snapshot(c, NoItems)
        kept == [k \in {x \in DOMAIN c : Exists(int(StrVal(x)).n)} |-> c[k]]
    IN  /\ resp' = Render("cart", "cart.html",
                          [items |-> snap.items, total |-> snap.total, cart_count |-> CartCount(c)])
        /\ session' = DictSet(session, "cart", kept)
        /\ UNCHANGED products

\* GET /cart
cart ==
    LET c == SessionCart(session)
        snap == Snapshot(c, NoItems)
    IN  /\ resp' = Render("cart", "cart.html",
                          [items |-> snap.items, total |-> snap.total, cart_count |-> CartCount(c)])
        /\ UNCHANGED <<session, products>>

\* an update that keeps an entry set to 0 (quantity >= 0 for quantity > 0)
UpdatedCartKeepsZero(c, product_id, quantity) ==
    IF product_id.t = "str" /\ product_id.v \in DOMAIN c THEN
        IF quantity >= 0 THEN DictSet(c, product_id.v, quantity)
        ELSE DictPop(c, product_id.v)
    ELSE c

\* an update that inserts the line item when the id is not in the cart
UpdatedCartInserts(c, product_id, quantity) ==
    IF product_id.t = "str" THEN
        IF quantity > 0 THEN DictSet(c, product_id.v, quantity)
        ELSE DictPop(c, product_id.v)
    ELSE c

\* the cart update_cart stores
UpdatedCart(c, product_id, quantity) ==
    IF product_id.t = "str" /\ product_id.v \in DOMAIN c THEN
        IF quantity > 0 THEN DictSet(c, product_id.v, quantity)
        ELSE DictPop(c, product_id.v)
    ELSE c

\* POST /cart/update
update_cart(form) ==
    LET product_id == Get(form, "product_id")
        quantity == int(GetDefault(form, "quantity", IntVal(0)))
        c == UpdatedCart(SessionCart(session), product_id, quantity.n)
    IN  IF ~quantity.ok THEN
            /\ resp' = InternalError("update_cart")
            /\ UNCHANGED <<session, products>>
        ELSE
            /\ session' = DictSet(session, "cart", c)
            /\ resp' = Redirect("update_cart", "cart")
            /\ UNCHANGED products
            /\ WithinBound(c)

\* a clear of the whole session instead of the pop of the cart
PopCartClearsSession(s) == EmptyDict

\* a pop of a key the session never holds
PopCartWrongKey(s) == DictPop(s, "Cart")

\* session.pop('cart', None)
PopCart(s) == DictPop(s, "cart")

\* POST /cart/clear
clear_cart ==
    /\ session' = PopCart(session)
    /\ resp' = Redirect("clear_cart", "cart")
    /\ UNCHANGED products

---------------------------------------------------------------------------
(* Checkout.                                                               *)

\* a checkout view that tests the stored cart, not the resolved items
checkoutTestsCart ==
    LET c == SessionCart(session)
        snap == Snapshot(c, NoItems)
    IN  /\ resp' = IF c = EmptyDict THEN Redirect("checkout", "cart")
                   ELSE Render("checkout", "checkout.html",
                               [items |-> snap.items, total |-> snap.total,
                                cart_count |-> CartCount(c)])
        /\ UNCHANGED <<session, products>>

\* GET /checkout
checkout ==
    LET c == SessionCart(session)
        snap == Snapshot(c, NoItems)
    IN  /\ resp' = IF snap.items = {} THEN Redirect("checkout", "cart")
                   ELSE Render("checkout", "checkout.html",
                               [items |-> snap.items, total |-> snap.total,
                                cart_count |-> CartCount(c)])
        /\ UNCHANGED <<session, products>>

\* a process that clears the cart only when every buyer field is filled in
ProcessedSessionIfFilled(s, order_info) ==
    IF \A f \in {"name", "email", "address"} : Truthy(order_info[f]) THEN DictPop(s, "cart")
    ELSE s

\* the session checkout_process leaves
ProcessedSession(s, order_info) == PopCart(s)

\* POST /checkout/process
checkout_process(form) ==
    LET order_info == [name |-> Get(form, "name"), email |-> Get(form, "email"),
                       address |-> Get(form, "address")]
    IN  /\ session' = ProcessedSession(session, order_info)
        /\ resp' = Render("checkout_process", "checkout_success.html", [order |-> order_info])
        /\ UNCHANGED products

---------------------------------------------------------------------------
(* Login and admin routes.                                                 *)

AdminName == <<"a", "d", "m", "i", "n">>
AdminPassword == <<"1", "2", "3", "4">>

\* the right pair, a wrong password, a wrong username, nothing submitted
LoginRequests ==
    {Body([username |-> StrVal(AdminName), password |-> StrVal(AdminPassword)]),
     Body([username |-> StrVal(AdminName), password |-> StrVal(AdminName)]),
     Body([username |-> StrVal(AdminPassword), password |-> StrVal(AdminPassword)]),
     Body([username |-> Absent, password |-> Absent])}
PriceInputs == {Absent, StrVal(<<"2", ".", "5">>), StrVal(<<"a">>)}
ProductRequests == {Body([price |-> p]) : p \in PriceInputs}
\* the ids of POST /delete-product/<int:product_id>; 9 is never in the table
DeleteIds == {1, 9}

\* login_required: the test of the decorator, and its redirect to login
\* that replaces the call of the decorated handler
LoggedIn(s) == "admin_logged_in" \in DOMAIN s
login_required(op) ==
    /\ resp' = Redirect(op, "login")
    /\ UNCHANGED <<session, products>>

\* a check that accepts either half of the pair
AuthenticatedEither(username, password) ==
    \/ username = StrVal(AdminName)
    \/ password = StrVal(AdminPassword)

\* the hardcoded check of login
Authenticated(username, password) ==
    /\ username = StrVal(AdminName)
    /\ password = StrVal(AdminPassword)

\* /login
login(method, form) ==
    LET username == Get(form, "username")
        password == Get(form, "password")
    IN  IF method = "POST" THEN
            IF Authenticated(username, password) THEN
                /\ session' = DictSet(DictSet(session, "admin_logged_in", TRUE),
                                      "admin_username", username.v)
                /\ resp' = Redirect("login", "dashboard")
                /\ UNCHANGED products
            ELSE
                /\ resp' = Render("login", "login.html",
                                  [error |-> "Invalid username or password!"])
                /\ UNCHANGED <<session, products>>
        ELSE
            /\ resp' = Render("login", "login.html", EmptyDict)
            /\ UNCHANGED <<session, products>>

\* a logout that drops the admin marker and keeps the rest of the session
logoutKeepsCart ==
    /\ session' = DictPop(DictPop(session, "admin_logged_in"), "admin_username")
    /\ resp' = Redirect("logout", "login")
    /\ UNCHANGED products

\* GET /logout: session.clear()
logout ==
    /\ session' = EmptyDict
    /\ resp' = Redirect("logout", "login")
    /\ UNCHANGED products

\* GET /dashboard
dashboard ==
    IF ~LoggedIn(session) THEN login_required("dashboard")
    ELSE
        /\ resp' = Render("dashboard", "admin.html", [products |-> DOMAIN products])
        /\ UNCHANGED <<session, products>>

\* /add-product
add_product(method, form) ==
    LET price == float(Get(form, "price"))
    IN  IF ~LoggedIn(session) THEN login_required("add_product")
        ELSE IF method = "POST" THEN
            IF price.ok THEN
                /\ NextId <= MaxProductId
                /\ products' = DictSet(products, NextId, [price |-> price.n])
                /\ resp' = Redirect("add_product", "dashboard")
                /\ UNCHANGED session
            ELSE
                /\ resp' = Render("add_product", "admin.html",
                                  [error |-> "Error adding product"])
                /\ UNCHANGED <<session, products>>
        ELSE
            /\ resp' = Render("add_product", "admin.html", EmptyDict)
            /\ UNCHANGED <<session, products>>

\* a deletion that lost its login_required decorator
delete_productUngated(product_id) ==
    /\ products' = IF Exists(product_id) THEN DictPop(products, product_id) ELSE products
    /\ resp' = Redirect("delete_product", "dashboard")
    /\ UNCHANGED session

\* a deletion that lets the NotFound of get_or_404 reach the 404 handler
delete_productRaises(product_id) ==
    IF ~LoggedIn(session) THEN login_required("delete_product")
    ELSE IF ~Exists(product_id) THEN
        /\ resp' = Json("delete_product", 404, [error |-> "Page not found"])
        /\ UNCHANGED <<session, products>>
    ELSE
        /\ products' = DictPop(products, product_id)
        /\ resp' = Redirect("delete_product", "dashboard")
        /\ UNCHANGED session

\* POST /delete-product/<product_id>: get_or_404 raises on an unknown id and
\* the handler swallows the exception
delete_product(product_id) ==
    IF ~LoggedIn(session) THEN login_required("delete_product")
    ELSE
        /\ products' = IF Exists(product_id) THEN DictPop(products, product_id) ELSE products
        /\ resp' = Redirect("delete_product", "dashboard")
        /\ UNCHANGED session

\* GET /admin
admin_old ==
    IF ~LoggedIn(session) THEN login_required("admin_old")
    ELSE
        /\ resp' = Redirect("admin_old", "dashboard")
        /\ UNCHANGED <<session, products>>

---------------------------------------------------------------------------
(* One request at a time: the requests that read or change the cart, the   *)
(* login and logout that change the session, and the deletion that makes   *)
(* cart entries stale.                                                     *)

Next ==
    \/ index /\ Alone
    \/ \E data \in AddRequests : add_to_cart(data) /\ Alone
    \/ cart /\ Alone
    \/ \E form \in UpdateRequests : update_cart(form) /\ Alone
    \/ clear_cart /\ Alone
    \/ checkout /\ Alone
    \/ \E form \in ProcessRequests : checkout_process(form) /\ Alone
    \/ \E form \in LoginRequests : login("POST", form) /\ Alone
    \/ logout /\ Alone
    \/ \E product_id \in DeleteIds : delete_product(product_id) /\ Alone

Spec == Init /\ [][Next]_vars

---------------------------------------------------------------------------
(* The admin panel: login, logout and the gated routes on the products     *)
(* table, with one customer line item (product 4) to watch go stale.       *)

Methods == {"GET", "POST"}
\* the ids of the deletions of the panel; 9 is never in the table
StoreDeleteIds == {1, 4, 5, 9}
StoreAddRequests == {Body([product_id |-> StrVal(<<"4">>), quantity |-> Absent])}

NextAdmin ==
    \/ \E method \in Methods, form \in LoginRequests : login(method, form) /\ Alone
    \/ logout /\ Alone
    \/ dashboard /\ Alone
    \/ \E method \in Methods, form \in ProductRequests : add_product(method, form) /\ Alone
    \/ \E product_id \in StoreDeleteIds : delete_product(product_id) /\ Alone
    \/ admin_old /\ Alone
    \/ \E data \in StoreAddRequests : add_to_cart(data) /\ Alone
    \/ checkout /\ Alone

SpecAdmin == Init /\ [][NextAdmin]_vars

---------------------------------------------------------------------------
(* Two add-to-cart requests of one session served concurrently.  Each      *)
(* request works on the session it read when it was received and writes    *)
(* that session back, with its modified cart, when it ends; nothing locks   *)
(* the session in between.                                                 *)

Racers == {1, 2}
RaceRequests ==
    {Body([product_id |-> StrVal(<<"1">>), quantity |-> Absent]),
     Body([product_id |-> StrVal(<<"1">>), quantity |-> StrVal(<<"3">>)]),
     Body([product_id |-> IntVal(2), quantity |-> IntVal(2)]),
     Body([product_id |-> StrVal(<<"1">>), quantity |-> StrVal(<<"x">>)])}
Idle == [pc |-> "idle"]

\* the session before the two requests: fresh, or holding one of product 1
InitRace ==
    /\ session \in {EmptyDict, DictSet(EmptyDict, "cart", DictSet(EmptyDict, <<"1">>, 1))}
    /\ products = [i \in 1..Len(SAMPLE_PRODUCTS) |-> SAMPLE_PRODUCTS[i]]
    /\ resp = [op |-> "none"]
    /\ assigned = 1..Len(SAMPLE_PRODUCTS)
    /\ inflight = [r \in Racers |-> Idle]

\* request r is received: it holds the session as stored at that moment
begin_add(r, data) ==
    /\ inflight[r].pc = "idle"
    /\ inflight' = [inflight EXCEPT ![r] = [pc |-> "read", data |-> data, session |-> session]]
    /\ UNCHANGED <<session, products, resp, assigned>>

\* a request that reads the stored session again when it writes
RaceCartFresh(r) == SessionCart(session)

\* cart = session.get('cart', {}) of request r: the cart of the session it holds
RaceCart(r) == SessionCart(inflight[r].session)

\* request r runs add_to_cart on the session it holds and ends: the
\* session it holds, with the modified cart, replaces the stored one
end_add(r) ==
    LET data == inflight[r].data
        product_id == Get(data, "product_id")
        parsed == int(product_id)
        pid == str(parsed.n)
        qty == int(GetDefault(data, "quantity", IntVal(1)))
        added == AddedCart(RaceCart(r), pid, qty.n)
        answer == IF ~Truthy(product_id)
                      THEN Json("add_to_cart", 400, [error |-> "product_id required"])
                  ELSE IF ~parsed.ok
                      THEN Json("add_to_cart", 400, [error |-> "invalid product_id"])
                  ELSE IF ~qty.ok THEN InternalError("add_to_cart")
                  ELSE Json("add_to_cart", 200, [cart_count |-> CartCount(added)])
    IN  /\ inflight[r].pc = "read"
        /\ session' = IF answer.status = 200 THEN DictSet(inflight[r].session, "cart", added)
                      ELSE session
        /\ resp' = answer
        /\ inflight' = [inflight EXCEPT ![r] = [pc |-> "done", data |-> data,
                                                session |-> inflight[r].session,
                                                resp |-> answer]]
        /\ UNCHANGED <<products, assigned>>

NextRace ==
    \/ \E r \in Racers, data \in RaceRequests : begin_add(r, data)
    \/ \E r \in Racers : end_add(r)

SpecRace == InitRace /\ [][NextRace]_vars

---------------------------------------------------------------------------
(* Properties.                                                             *)

\* the stored cart of the current state, and of the next
Stored == SessionCart(session)
StoredNext == SessionCart(session')

\* the sum of r.n over a finite set of records
RECURSIVE SetSum(_)
SetSum(S) ==
    IF S = {} THEN 0
    ELSE LET r == CHOOSE x \in S : TRUE IN r.n + SetSum(S \ {r})

\* the id and the quantity a request asks for, as int() reads them
AskedId(data) == int(Get(data, "product_id"))
AskedQuantity(data, default) == int(GetDefault(data, "quantity", IntVal(default)))
\* the add-to-cart and update requests with what they ask for
AddCases ==
    {[data |-> d, id |-> AskedId(d), q |-> AskedQuantity(d, 1)] : d \in AddRequests}
UpdateCases ==
    {[form |-> f, id |-> Get(f, "product_id"), q |-> AskedQuantity(f, 0)] : f \in UpdateRequests}

\* the requests just answered
AddSucceeded == resp.op = "add_to_cart" /\ resp.status = 200
CheckoutRendered == resp.op = "checkout" /\ resp.kind = "render"

\* C1: every quantity stored in the cart is strictly greater than 0
QuantitiesPositive == \A k \in DOMAIN Stored : Stored[k] > 0

\* C2: a successful Add(id, q) sets the entry of id to its previous quantity
\* (0 if absent) plus q and leaves every other entry unchanged
AddIncrements ==
    [][resp'.op = "add_to_cart" /\ resp'.status = 200 =>
          \A c \in AddCases :
              (c.id.ok /\ c.q.ok /\ add_to_cart(c.data)) =>
                  LET pid == str(c.id.n)
                  IN  /\ DOMAIN StoredNext = DOMAIN Stored \cup {pid}
                      /\ StoredNext[pid] =
                             (IF pid \in DOMAIN Stored THEN Stored[pid] ELSE 0) + c.q.n
                      /\ \A k \in DOMAIN Stored \ {pid} : StoredNext[k] = Stored[k]]_vars
\* an Add has just brought product 1 to 5, which no single Add stores
AddIncrementsWitness ==
    /\ AddSucceeded
    /\ DOMAIN Stored = {<<"1">>}
    /\ Stored[<<"1">>] = 5

\* C3: the cart_count of a successful Add and the badge count of the index,
\* cart and checkout views are the sum of all stored quantities, stale
\* entries included
CountIsSum ==
    LET sum == SetSum({[key |-> k, n |-> Stored[k]] : k \in DOMAIN Stored})
    IN  /\ AddSucceeded => resp.body.cart_count = sum
        /\ (resp.op \in {"index", "cart"} \/ CheckoutRendered) => resp.ctx.cart_count = sum
\* the checkout view counts 3 items while product 1, holding 2 of them, is gone
CountIsSumWitness ==
    /\ CheckoutRendered
    /\ ~Exists(1)
    /\ DOMAIN Stored = {<<"1">>, <<"2">>}
    /\ Stored[<<"1">>] = 2
    /\ resp.ctx.cart_count = 3

\* C4: SetQuantity(id, q) on an id present in the cart overwrites its
\* quantity with q when q > 0 and removes the entry when q <= 0; every other
\* entry is unchanged
SetQuantityOnPresent ==
    [][resp'.op = "update_cart" /\ resp'.kind = "redirect" =>
          \A c \in UpdateCases :
              (c.id.t = "str" /\ c.id.v \in DOMAIN Stored /\ c.q.ok /\ update_cart(c.form)) =>
                  /\ c.q.n > 0 => (DOMAIN StoredNext = DOMAIN Stored /\ StoredNext[c.id.v] = c.q.n)
                  /\ c.q.n <= 0 => DOMAIN StoredNext = DOMAIN Stored \ {c.id.v}
                  /\ \A k \in DOMAIN Stored \ {c.id.v} :
                         k \in DOMAIN StoredNext /\ StoredNext[k] = Stored[k]]_vars
\* an update has been answered with product 1 at 3 beside another entry
SetQuantityOnPresentWitness ==
    /\ resp.op = "update_cart"
    /\ resp.kind = "redirect"
    /\ DOMAIN Stored = {<<"1">>, <<"2">>}
    /\ Stored[<<"1">>] = 3
    /\ Stored[<<"2">>] = 2

\* C5: SetQuantity(id, q) on an id that is not in the cart leaves the cart
\* mapping as it was, for every q
SetQuantityOnAbsent ==
    [][resp'.op = "update_cart" =>
          \A c \in UpdateCases :
              (~(c.id.t = "str" /\ c.id.v \in DOMAIN Stored) /\ update_cart(c.form)) =>
                  StoredNext = Stored]_vars
\* an update has been answered on a session that holds only the empty cart
\* it wrote back
SetQuantityOnAbsentWitness ==
    /\ resp.op = "update_cart"
    /\ resp.kind = "redirect"
    /\ "cart" \in DOMAIN session
    /\ Stored = EmptyDict

\* C6: checkout/process leaves the cart empty, whatever was submitted
ProcessEmptiesCart == resp.op = "checkout_process" => Stored = EmptyDict
\* a checkout/process without name, email or address was answered
ProcessEmptiesCartWitness ==
    /\ resp.op = "checkout_process"
    /\ resp.ctx.order.name.t = "none"
    /\ resp.ctx.order.email.t = "none"
    /\ resp.ctx.order.address.t = "none"

\* C7: Clear leaves the cart empty
ClearEmptiesCart == resp.op = "clear_cart" => Stored = EmptyDict
\* a clear was answered after product 1 had been deleted
ClearEmptiesCartWitness ==
    /\ resp.op = "clear_cart"
    /\ ~Exists(1)

\* the cart entries whose id is in the products table
Resolving == {k \in DOMAIN Stored : ParseInt(k).ok /\ ParseInt(k).n \in DOMAIN products}

\* C8: the checkout view redirects to the cart exactly when no cart entry
\* resolves to a product, and renders the checkout form otherwise
CheckoutRedirectsIffNothingResolves ==
    resp.op = "checkout" =>
        /\ resp.kind = "redirect" <=> Resolving = {}
        /\ resp.kind = "redirect" => resp.to = "cart"
        /\ resp.kind = "render" <=> Resolving # {}
\* the checkout view redirected on a cart whose entries are all stale
CheckoutRedirectsWitness ==
    /\ resp.op = "checkout"
    /\ resp.kind = "redirect"
    /\ DOMAIN Stored = {<<"0">>, <<"1">>}

\* C9: the grand total of a rendered checkout is the sum of price times
\* stored quantity over the products that a cart entry names
TotalIsSumOfResolving ==
    CheckoutRendered =>
        resp.ctx.total =
            SetSum({[key |-> id, n |-> products[id].price * Stored[str(id)]] :
                       id \in {i \in DOMAIN products : str(i) \in DOMAIN Stored}})
\* cart {1: 2, 2: 1} beside a stale entry totals 89.97
TotalIsSumWitness ==
    /\ CheckoutRendered
    /\ DOMAIN Stored = {<<"0">>, <<"1">>, <<"2">>}
    /\ Stored[<<"1">>] = 2
    /\ Stored[<<"2">>] = 1
    /\ resp.ctx.total = 8997

\* C10: an Add whose product_id is missing or does not parse as a positive
\* integer is answered 400 and creates no cart entry
AddRejectsNonPositiveId ==
    [][resp'.op = "add_to_cart" =>
          \A c \in AddCases :
              (~(c.id.ok /\ c.id.n > 0) /\ add_to_cart(c.data)) =>
                  (resp'.status = 400 /\ StoredNext = Stored)]_vars

\* the routes behind login_required
GatedOps == {"dashboard", "add_product", "delete_product", "admin_old"}
\* the one login request that carries the hardcoded pair
RightLogin ==
    Body([username |-> StrVal(<<"a", "d", "m", "i", "n">>),
          password |-> StrVal(<<"1", "2", "3", "4">>)])

\* C11: a gated route requested without the logged-in flag redirects to
\* login and leaves the products table unchanged; the table changes only on
\* an add-product or delete-product of a session that carries the flag, and
\* the flag appears only by a successful login and goes with logout
AdminGate ==
    [][/\ (resp'.op \in GatedOps /\ ~LoggedIn(session)) =>
              (resp' = Redirect(resp'.op, "login") /\ products' = products)
       /\ products' # products =>
              (LoggedIn(session) /\ resp'.op \in {"add_product", "delete_product"})
       /\ (LoggedIn(session') /\ ~LoggedIn(session)) =>
              (resp'.op = "login" /\ resp'.kind = "redirect")
       /\ resp'.op = "logout" => ~LoggedIn(session')]_vars
\* a deletion was refused after the admin, since logged out, had deleted
\* product 4
AdminGateWitness ==
    /\ resp = Redirect("delete_product", "login")
    /\ ~LoggedIn(session)
    /\ ~Exists(4)

\* C12: only the login POST with the hardcoded pair sets the flag; any other
\* pair re-renders the login page with an error and leaves the session as it
\* was, so the dashboard still redirects a session that was not logged in
LoginOnlyForTheHardcodedPair ==
    [][/\ resp'.op = "login" =>
              \A method \in Methods, form \in LoginRequests :
                  (login(method, form) /\ Alone) =>
                      IF method = "POST" /\ form = RightLogin
                      THEN /\ LoggedIn(session')
                           /\ session'["admin_username"] = AdminName
                           /\ resp' = Redirect("login", "dashboard")
                      ELSE /\ session' = session
                           /\ resp'.kind = "render"
                           /\ resp'.template = "login.html"
                           /\ method = "POST" => "error" \in DOMAIN resp'.ctx
       /\ (resp'.op = "dashboard" /\ ~LoggedIn(session)) =>
              resp' = Redirect("dashboard", "login")]_vars
\* a login was refused with the error on a session without the flag
LoginRefusedWitness ==
    /\ resp.op = "login"
    /\ resp.kind = "render"
    /\ "error" \in DOMAIN resp.ctx
    /\ ~LoggedIn(session)

\* C14: a logged-in delete-product of an id that is not in the table is
\* answered by the redirect to the dashboard, not by a 404 or a 500, and
\* leaves the table unchanged
DeleteUnknownIsSilent ==
    [][resp'.op = "delete_product" =>
          \A product_id \in StoreDeleteIds :
              (LoggedIn(session) /\ ~Exists(product_id) /\ delete_product(product_id)) =>
                  /\ resp' = Redirect("delete_product", "dashboard")
                  /\ resp'.status \notin {404, 500}
                  /\ products' = products]_vars
\* a deletion was answered by the dashboard redirect on a table that never
\* lost or gained a row
DeleteUnknownWitness ==
    /\ resp = Redirect("delete_product", "dashboard")
    /\ LoggedIn(session)
    /\ DOMAIN products = 1..Len(SAMPLE_PRODUCTS)
    /\ \A i \in DOMAIN products : products[i] = SAMPLE_PRODUCTS[i]
    /\ assigned = DOMAIN products

\* C18: a row is never inserted under an id that the table gave out before,
\* and a cart entry that stopped resolving never resolves again
IdsNeverReused ==
    [][/\ \A id \in DOMAIN products' \ DOMAIN products : id \notin assigned
       /\ \A k \in DOMAIN Stored :
              (ParseInt(k).n \in assigned \ DOMAIN products) =>
                  ParseInt(k).n \notin DOMAIN products']_vars

\* C13: after logout the session holds nothing: no admin flag, no
\* username, no cart, so the cart count is 0
LogoutClearsSession ==
    resp.op = "logout" =>
        /\ ~LoggedIn(session)
        /\ "admin_username" \notin DOMAIN session
        /\ "cart" \notin DOMAIN session
        /\ SetSum({[key |-> k, n |-> Stored[k]] : k \in DOMAIN Stored}) = 0
\* a logout was answered after an admin session had deleted product 1
LogoutClearsSessionWitness ==
    /\ resp = Redirect("logout", "login")
    /\ session = EmptyDict
    /\ ~Exists(1)

\* the cart entries of the next state whose id is in the products table
ResolvingNext ==
    {k \in DOMAIN StoredNext : ParseInt(k).ok /\ ParseInt(k).n \in DOMAIN products'}

\* C16: delete-product, the cart view and the checkout view leave the
\* session as it was; the views list exactly the entries whose product
\* exists, while the count still sums every stored entry
ViewsAndDeleteKeepStoredCart ==
    [][/\ resp'.op \in {"delete_product", "cart", "checkout"} => session' = session
       /\ (resp'.op = "cart" \/ (resp'.op = "checkout" /\ resp'.kind = "render")) =>
              /\ {[id |-> it.product, quantity |-> it.quantity] : it \in resp'.ctx.items}
                     = {[id |-> ParseInt(k).n, quantity |-> StoredNext[k]] : k \in ResolvingNext}
              /\ resp'.ctx.cart_count
                     = SetSum({[key |-> k, n |-> StoredNext[k]] : k \in DOMAIN StoredNext})]_vars
\* the cart view shows no line item and a count of 2 for the stored entry
\* of the deleted product 1
CountAndItemsDivergeWitness ==
    /\ resp.op = "cart"
    /\ ~Exists(1)
    /\ DOMAIN Stored = {<<"1">>}
    /\ Stored[<<"1">>] = 2
    /\ resp.ctx.items = {}
    /\ resp.ctx.cart_count = 2

\* C17: checkout/process leaves the cart empty, and an empty cart stays
\* empty under every request but an Add; a checkout view in between
\* redirects to the cart
EmptyUntilNextAdd ==
    [][/\ resp'.op = "checkout_process" => StoredNext = EmptyDict
       /\ (Stored = EmptyDict /\ resp'.op # "add_to_cart") =>
              /\ StoredNext = EmptyDict
              /\ resp'.op = "checkout" => resp' = Redirect("checkout", "cart")]_vars
\* the checkout view redirected on a session without a cart while every
\* product is in the table
EmptyUntilNextAddWitness ==
    /\ resp = Redirect("checkout", "cart")
    /\ "cart" \notin DOMAIN session
    /\ DOMAIN products = 1..Len(SAMPLE_PRODUCTS)

\* C19: an add-to-cart that is answered with an error leaves the session as
\* it was; an add-to-cart changes the cart only when it returns a cart_count
FailedAddKeepsCart ==
    [][resp'.op = "add_to_cart" =>
          /\ resp'.status # 200 => (session' = session /\ "error" \in DOMAIN resp'.body)
          /\ StoredNext # Stored => "cart_count" \in DOMAIN resp'.body]_vars
\* an add-to-cart ended in the 500 response on a cart that holds an entry
FailedAddWitness ==
    /\ resp = InternalError("add_to_cart")
    /\ Stored # EmptyDict

\* the admin marker of a session
AdminPart(s) == [k \in DOMAIN s \cap {"admin_logged_in", "admin_username"} |-> s[k]]

\* C20: Add, SetQuantity, Clear and checkout/process leave the admin marker
\* as it was, Login leaves the cart as it was, and only Logout changes both
CartAndAdminIndependent ==
    [][/\ resp'.op \in {"add_to_cart", "update_cart", "clear_cart", "checkout_process"} =>
              AdminPart(session') = AdminPart(session)
       /\ resp'.op = "login" =>
              (StoredNext = Stored /\ ("cart" \in DOMAIN session' <=> "cart" \in DOMAIN session))
       /\ (AdminPart(session') # AdminPart(session) /\ StoredNext # Stored) =>
              resp'.op = "logout"]_vars
\* a login succeeded on a session that keeps its cart
LoginKeepsCartWitness ==
    /\ resp = Redirect("login", "dashboard")
    /\ LoggedIn(session)
    /\ Stored # EmptyDict

\* both concurrent requests have ended with a cart_count, for the same id,
\* after holding the same session
BothAddedOverlapped ==
    /\ \A r \in Racers : inflight[r].pc = "done" /\ inflight[r].resp.status = 200
    /\ AskedId(inflight[1].data).n = AskedId(inflight[2].data).n
    /\ inflight[1].session = inflight[2].session

\* C15: two add-to-cart requests that both read the session before either
\* wrote it lose an update: both succeed, and the stored quantity is the
\* initial one plus only one of the two increments
ConcurrentAddsLoseAnUpdate ==
    BothAddedOverlapped =>
        LET pid == str(AskedId(inflight[1].data).n)
            before == DictGet(SessionCart(inflight[1].session), pid, 0)
            q1 == AskedQuantity(inflight[1].data, 1).n
            q2 == AskedQuantity(inflight[2].data, 1).n
        IN  /\ Stored[pid] \in {before + q1, before + q2}
            /\ Stored[pid] < before + q1 + q2
\* one of product 1 before, two successful adds of 1 and 3, and 2 or 4
\* stored instead of 5
LostUpdateWitness ==
    /\ BothAddedOverlapped
    /\ SessionCart(inflight[1].session) = DictSet(EmptyDict, <<"1">>, 1)
    /\ {AskedQuantity(inflight[r].data, 1).n : r \in Racers} = {1, 3}
    /\ Stored[<<"1">>] < 5

===========================================================================
